---------------------------- MODULE Spec2Model ----------------------------
(***************************************************************************)
(* A model of the os_daily scripts: the completion-response text           *)
(* extraction (run_sys_prompt_agent.py, tavily_summary.py), the Tavily     *)
(* search with its client-then-HTTP fallback and retry loop                *)
(* (tavily_summary.py), the digest date sanitizer (run_sys_prompt_agent.py)*)
(* and the three entry points that publish a digest to a sink.             *)
(*                                                                         *)
(* Text is a sequence of characters.  In the sanitizer's texts the fixed   *)
(* literals of its patterns ("Open Science News Digest", "Date:",          *)
(* "unknown", a ten-character dddd-dd-dd date) are single symbols of the   *)
(* alphabet; every other symbol is one character.                          *)
(***************************************************************************)
EXTENDS Integers, Sequences, FiniteSets, TLC

VARIABLES
    \* ---- text extraction on one completion choice
    xpc, xchoice, xv1, xsum,
    \* ---- tavily_search
    spc, skey, smax, surl, attempts, backoff0, attempt, backoff, sleeps,
    requests, httplog, clientlog, last_exc, items, sresult, serror,
    \* ---- sanitize_digest_for_issue
    zpc, zbody, zdate, zout, zout2,
    \* ---- web_search
    wpc, wquery, wmax, wgoogle, wkeys, wsent, wresult,
    \* ---- one raw search item through each normalizing path
    npc, nitem, nrec,
    \* ---- one run of an entry point
    entry, pc, env, extracted, digest, published, printed, logged, failure

extractVars == <<xpc, xchoice, xv1, xsum>>
searchVars == <<spc, skey, smax, surl, attempts, backoff0, attempt, backoff, sleeps,
                requests, httplog, clientlog, last_exc, items, sresult, serror>>
sanitizeVars == <<zpc, zbody, zdate, zout, zout2>>
runVars == <<entry, pc, env, extracted, digest, published, printed, logged, failure>>
webVars == <<wpc, wquery, wmax, wgoogle, wkeys, wsent, wresult>>
normalizeVars == <<npc, nitem, nrec>>
vars == <<extractVars, searchVars, sanitizeVars, runVars, webVars, normalizeVars>>
exceptExtract == <<searchVars, sanitizeVars, runVars, webVars, normalizeVars>>
exceptSearch == <<extractVars, sanitizeVars, runVars, webVars, normalizeVars>>
exceptSanitize == <<extractVars, searchVars, runVars, webVars, normalizeVars>>
exceptRun == <<extractVars, searchVars, sanitizeVars, webVars, normalizeVars>>
exceptWeb == <<extractVars, searchVars, sanitizeVars, runVars, normalizeVars>>
exceptNormalize == <<extractVars, searchVars, sanitizeVars, runVars, webVars>>

(***************************************************************************)
(* Python values: a str, None, a missing key or attribute, a raised        *)
(* exception.                                                              *)
(***************************************************************************)
PyStr(s) == [k |-> "str", s |-> s]
PyNone == [k |-> "None", s |-> <<>>]
Absent == [k |-> "absent", s |-> <<>>]
Raised == [k |-> "raise", s |-> <<>>]

\* bool(v) of a str-or-None value: `if not text`, `text or ""`
Truthy(v) == v.k = "str" /\ v.s # <<>>

\* str.isspace() of one character
IsSpace(c) == c \in {" ", "\n", "\r"}

RECURSIVE LStrip(_)
LStrip(s) ==
    IF s # <<>> /\ IsSpace(Head(s)) THEN LStrip(Tail(s)) ELSE s

RECURSIVE RStrip(_)
RStrip(s) ==
    IF s # <<>> /\ IsSpace(s[Len(s)]) THEN RStrip(SubSeq(s, 1, Len(s) - 1)) ELSE s

\* str.strip()
Strip(s) == RStrip(LStrip(s))

\* (v or "").strip()
OrEmptyStrip(v) == IF Truthy(v) THEN Strip(v.s) ELSE <<>>

(***************************************************************************)
(* A completion choice.  kind says how the value can be read:              *)
(*   "dict"    a plain dict: subscription and .get, no attributes          *)
(*   "dictobj" a dict subclass that also answers attribute access (the     *)
(*             pre-1.0 OpenAIObject)                                       *)
(*   "mapping" a non-dict mapping: subscription and .get                   *)
(*   "obj"     an object with attributes only (the v1 pydantic models)     *)
(* message.kind is one of these, or "absent" / "None".  content and text   *)
(* are Python values; repr is what `content="..."` captures in str(choice),*)
(* Absent when str(choice) holds no such substring.                        *)
(***************************************************************************)
Subscriptable(kind) == kind \in {"dict", "dictobj", "mapping"}
IsInstanceDict(kind) == kind \in {"dict", "dictobj"}
HasAttrs(kind) == kind \in {"dictobj", "obj"}
HasGet(kind) == kind \in {"dict", "dictobj", "mapping"}

ContentValues == {Absent, PyNone, PyStr(<<>>), PyStr(<<" ">>), PyStr(<<"c">>),
                  PyStr(<<" ", "c", "\n">>),
                  PyStr(<<"Open Science News Digest", "-", "2020-01-01", "\n", "c">>)}
TextValues == {Absent, PyNone, PyStr(<<>>), PyStr(<<"t">>)}
ReprValues == {Absent, PyStr(<<>>), PyStr(<<"r">>)}
Messages ==
    {[kind |-> "absent", content |-> Absent], [kind |-> "None", content |-> Absent]}
    \cup [kind : {"dict", "dictobj", "mapping", "obj"}, content : ContentValues]
Choices ==
    [kind : {"dict", "dictobj", "obj"}, message : Messages,
     text : TextValues, repr : ReprValues]

\* obj[key]: the value, or Raised (KeyError on a missing key, TypeError on a
\* value that is not subscriptable)
GetItem(kind, field) ==
    IF Subscriptable(kind) /\ field.k # "absent" THEN field ELSE Raised

\* getattr(obj, key, None)
GetAttrOrNone(kind, field) ==
    IF HasAttrs(kind) /\ field.k # "absent" THEN field ELSE PyNone

\* obj.get(key): None on a missing key, Raised (AttributeError) without .get
DictGet(kind, field) ==
    IF ~HasGet(kind) THEN Raised
    ELSE IF field.k = "absent" THEN PyNone ELSE field

\* the message as a value of its own: None, or something that is not None
MessageIsNone(m) == m.kind \in {"absent", "None"}

\* ch["message"]["content"]
ItemItemContent(ch) ==
    IF ~Subscriptable(ch.kind) \/ ch.message.kind = "absent" THEN Raised
    ELSE IF ch.message.kind = "None" THEN Raised
    ELSE GetItem(ch.message.kind, ch.message.content)

\* msg = getattr(ch, "message", None): TRUE when msg is None
AttrMessageIsNone(ch) == ~HasAttrs(ch.kind) \/ MessageIsNone(ch.message)

\* strategy 2 of _extract_text_from_choice once msg is not None:
\* msg["content"], else getattr(msg, "content", None); it always returns
AttrMessageContent(ch) ==
    LET m == ch.message
        sub == GetItem(m.kind, m.content)
    IN  IF sub.k # "raise" THEN sub ELSE GetAttrOrNone(m.kind, m.content)

\* strategy 3 returns only for a dict whose message is a dict
DictGetApplies(ch) == IsInstanceDict(ch.kind) /\ IsInstanceDict(ch.message.kind)

\* strategy 4: ch["text"], else getattr(ch, "text", None); it always returns
LegacyText(ch) ==
    LET sub == GetItem(ch.kind, ch.text)
    IN  IF sub.k # "raise" THEN sub ELSE GetAttrOrNone(ch.kind, ch.text)

\* _extract_text_from_choice: each strategy returns what it read, whatever it is
extract_text_from_choice(ch) ==
    IF ItemItemContent(ch).k # "raise" THEN ItemItemContent(ch)
    ELSE IF ~AttrMessageIsNone(ch) THEN AttrMessageContent(ch)
    ELSE IF DictGetApplies(ch) THEN DictGet(ch.message.kind, ch.message.content)
    ELSE LegacyText(ch)

\* call_openai_system, v1 path after the response arrived: the stripped text,
\* <<>> standing for the RuntimeError "returned no content"
v1_text(ch) == OrEmptyStrip(extract_text_from_choice(ch))

\* call_openai_summary step 1: the message content by the shape of the choice
SummaryContent(ch) ==
    LET m == ch.message
    IN  IF IsInstanceDict(ch.kind)
        THEN \* choice.get("message", {}).get("content")
             IF m.kind = "absent" THEN PyNone
             ELSE IF m.kind = "None" THEN PyNone      \* AttributeError, text = None
             ELSE LET got == DictGet(m.kind, m.content)
                  IN  IF got.k = "raise" THEN PyNone ELSE got
        ELSE IF AttrMessageIsNone(ch) THEN PyNone
        ELSE IF IsInstanceDict(m.kind) THEN DictGet(m.kind, m.content)
        ELSE LET content == GetAttrOrNone(m.kind, m.content)
             IN  IF content.k = "None" /\ HasGet(m.kind)
                 THEN DictGet(m.kind, m.content) ELSE content

\* call_openai_summary step 2: choice.get("text") or getattr(choice, "text", None)
SummaryLegacyText(ch) ==
    IF IsInstanceDict(ch.kind) THEN DictGet(ch.kind, ch.text)
    ELSE GetAttrOrNone(ch.kind, ch.text)

\* call_openai_summary step 3: re.search(r'content\s*=\s*"(.*?)"', str(choice))
SummaryRepr(ch, text) == IF ch.repr.k = "absent" THEN text ELSE ch.repr

\* call_openai_summary, v1 path after the response arrived
summary_text(ch) ==
    LET t1 == SummaryContent(ch)
        t2 == IF Truthy(t1) THEN t1 ELSE SummaryLegacyText(ch)
        t3 == IF Truthy(t2) THEN t2 ELSE SummaryRepr(ch, t2)
    IN  OrEmptyStrip(t3)

(***************************************************************************)
(* sanitize_digest_for_issue.  The symbols of a digest text:               *)
(***************************************************************************)
Heading == "Open Science News Digest"
EmDash == "emdash"
Hyphen == "-"
DateLit == "Date:"
Unknown == "unknown"

\* datetime.date values are day ordinals; isoformat() writes one as dddd-dd-dd
IsoOf == <<"2024-06-10", "2024-06-11">>
Days == DOMAIN IsoOf
isoformat(d) == IsoOf[d]

\* strings \d{4}-\d{2}-\d{2} matches, and those date.fromisoformat accepts
DateShaped == {"2020-01-01", "2020-13-45"} \cup {IsoOf[d] : d \in Days}
CalendarDates == {"2020-01-01"} \cup {IsoOf[d] : d \in Days}

\* the character class [—-]
IsDash(c) == c \in {EmDash, Hyphen}

\* the first position >= i of s that holds no whitespace (Len(s)+1 if none)
RECURSIVE SkipSpace(_, _)
SkipSpace(s, i) ==
    IF i <= Len(s) /\ IsSpace(s[i]) THEN SkipSpace(s, i + 1) ELSE i

\* where a match of  Open Science News Digest\s*[—-]\s*\d{4}-\d{2}-\d{2}
\* that starts at position i of s ends; 0 when there is none
HeadingMatchEnd(s, i) ==
    IF i > Len(s) \/ s[i] # Heading THEN 0
    ELSE LET j == SkipSpace(s, i + 1)
         IN  IF j > Len(s) \/ ~IsDash(s[j]) THEN 0
             ELSE LET k == SkipSpace(s, j + 1)
                  IN  IF k <= Len(s) /\ s[k] \in DateShaped THEN k ELSE 0

\* f"Open Science News Digest — {iso}"
CanonicalHeading(iso) == <<Heading, " ", EmDash, " ", iso>>

\* re.sub of only the first match (count=1)
RECURSIVE SubFirstHeading(_, _)
SubFirstHeading(s, iso) ==
    IF s = <<>> THEN <<>>
    ELSE LET e == HeadingMatchEnd(s, 1)
         IN  IF e > 0 THEN CanonicalHeading(iso) \o SubSeq(s, e + 1, Len(s))
             ELSE <<Head(s)>> \o SubFirstHeading(Tail(s), iso)

\* re.sub(pattern, canonical heading, body): every non-overlapping match,
\* left to right
RECURSIVE SubHeadings(_, _)
SubHeadings(s, iso) ==
    IF s = <<>> THEN <<>>
    ELSE LET e == HeadingMatchEnd(s, 1)
         IN  IF e > 0
             THEN CanonicalHeading(iso) \o SubHeadings(SubSeq(s, e + 1, Len(s)), iso)
             ELSE <<Head(s)>> \o SubHeadings(Tail(s), iso)

\* the line boundaries str.splitlines() knows
IsLineBreak(c) == c \in {"\n", "\r"}

\* the first position >= i of s that holds a line break (Len(s)+1 if none)
RECURSIVE NextBreak(_, _)
NextBreak(s, i) ==
    IF i <= Len(s) /\ ~IsLineBreak(s[i]) THEN NextBreak(s, i + 1) ELSE i

\* str.splitlines(): the lines without their terminators; "\r\n" is one
\* terminator, and a terminator that ends the text starts no further line
RECURSIVE splitlines(_)
splitlines(s) ==
    IF s = <<>> THEN <<>>
    ELSE LET p == NextBreak(s, 1)
         IN  IF p > Len(s) THEN <<s>>
             ELSE LET q == IF s[p] = "\r" /\ p < Len(s) /\ s[p + 1] = "\n"
                           THEN p + 1 ELSE p
                  IN  <<SubSeq(s, 1, p - 1)>> \o splitlines(SubSeq(s, q + 1, Len(s)))

\* "\n".join(lines)
RECURSIVE join(_)
join(lines) ==
    IF lines = <<>> THEN <<>>
    ELSE IF Len(lines) = 1 THEN lines[1]
    ELSE lines[1] \o <<"\n">> \o join(Tail(lines))

\* range(min(6, len(lines)))
ScanLimit == 6
ScanRange(lines) == 1 .. (IF Len(lines) < ScanLimit THEN Len(lines) ELSE ScanLimit)

\* re.match(r"^Date:\s*(.*)$", line)
IsDateLine(line) == line # <<>> /\ line[1] = DateLit

\* m.group(1).strip()
Candidate(line) == Strip(Tail(line))

\* date.fromisoformat(candidate) does not raise
ParsesAsIso(cand) == Len(cand) = 1 /\ cand[1] \in CalendarDates

\* what the matched line becomes
RewrittenDateLine(line, iso) ==
    IF ParsesAsIso(Candidate(line)) THEN <<DateLit, " ", iso>>
    ELSE <<DateLit, " ", Unknown>>

\* the loop without its break: every matching line of the range is rewritten
RewriteEveryDateLine(lines, iso) ==
    [i \in DOMAIN lines |->
        IF i \in ScanRange(lines) /\ IsDateLine(lines[i])
        THEN RewrittenDateLine(lines[i], iso) ELSE lines[i]]

\* the loop over the first lines, with its break after the first match
RewriteDateLine(lines, iso) ==
    LET hits == {i \in ScanRange(lines) : IsDateLine(lines[i])}
    IN  IF hits = {} THEN lines
        ELSE LET i == CHOOSE h \in hits : \A g \in hits : h <= g
             IN  [lines EXCEPT ![i] = RewrittenDateLine(lines[i], iso)]

sanitize_digest_for_issue(body, issue_date) ==
    LET iso == isoformat(issue_date)
    IN  join(RewriteDateLine(splitlines(SubHeadings(body, iso)), iso))

\* ---- the texts the sanitizer is applied to: up to MaxSegs pieces
MaxSegs == 3
FiveBlankLines == <<"\n", "\n", "\n", "\n", "\n">>
SegPool ==
    {<<Heading>>, <<EmDash>>, <<"2020-01-01">>, <<"2020-13-45">>, <<" ">>,
     <<"\n">>, <<"\r">>, <<DateLit>>, <<"a">>, FiveBlankLines,
     <<"\n", DateLit>>, <<Heading, Hyphen, "2020-01-01">>}

RECURSIVE TextsOf(_)
TextsOf(n) ==
    IF n = 0 THEN {<<>>}
    ELSE LET shorter == TextsOf(n - 1)
         IN  shorter \cup {t \o g : t \in shorter, g \in SegPool}

SanitizeInit ==
    /\ zpc = "new"
    /\ zbody \in TextsOf(MaxSegs)
    /\ zdate \in Days
    /\ zout = <<>>
    /\ zout2 = <<>>

SanitizeIdle == zpc = "idle" /\ zbody = <<>> /\ zdate = 1 /\ zout = <<>> /\ zout2 = <<>>

\* digest = sanitize_digest_for_issue(digest, today)
Sanitize ==
    /\ zpc = "new"
    /\ UNCHANGED exceptSanitize
    /\ zout' = sanitize_digest_for_issue(zbody, zdate)
    /\ zpc' = "once"
    /\ UNCHANGED <<zbody, zdate, zout2>>

\* the sanitizer applied to its own output, with the same date
SanitizeAgain ==
    /\ zpc = "once"
    /\ UNCHANGED exceptSanitize
    /\ zout2' = sanitize_digest_for_issue(zout, zdate)
    /\ zpc' = "twice"
    /\ UNCHANGED <<zbody, zdate, zout>>


(***************************************************************************)
(* tavily_search.  An upstream result item is a dict whose fields are      *)
(* Python values: Absent (no such key), None, a str, or a value of another *)
(* type (an int), on which .strip() raises.                                *)
(***************************************************************************)
PyInt == [k |-> "int", s |-> <<>>]

\* bool(v) as `or` reads it
TruthyValue(v) == v.k = "int" \/ Truthy(v)

\* item.get(key)
ItemGet(field) == IF field.k = "absent" THEN PyNone ELSE field

\* item.get(key, "")
ItemGetOrEmpty(field) == IF field.k = "absent" THEN PyStr(<<>>) ELSE field

\* a or b
PyOr(a, b) == IF TruthyValue(a) THEN a ELSE b

\* v.strip() raises on a value that is no str
CanStrip(v) == v.k = "str"

RawItem(title, headline, snippet, summary, text, url, link) ==
    [title |-> title, headline |-> headline, snippet |-> snippet,
     summary |-> summary, text |-> text, url |-> url, link |-> link]

RawItems ==
    {RawItem(PyStr(<<" ", "T">>), Absent, PyStr(<<"s">>), Absent, Absent,
             PyStr(<<"u">>), Absent),
     RawItem(Absent, PyStr(<<"H">>), Absent, PyStr(<<"m">>), Absent,
             Absent, PyStr(<<"l">>)),
     RawItem(PyStr(<<>>), PyStr(<<"H">>), PyNone, Absent, PyStr(<<"x", " ">>),
             PyStr(<<>>), PyStr(<<"l">>)),
     RawItem(Absent, Absent, Absent, Absent, Absent, Absent, Absent),
     RawItem(PyInt, Absent, PyStr(<<"s">>), Absent, Absent, PyStr(<<"u">>), Absent)}

\* the fields of one item as the client path reads them (lines 81-83)
ClientFields(item) ==
    [title |-> PyOr(ItemGetOrEmpty(item.title), PyStr(<<>>)),
     snippet |-> PyOr(PyOr(PyOr(ItemGet(item.snippet), ItemGet(item.summary)),
                           ItemGet(item.text)), PyStr(<<>>)),
     url |-> PyOr(PyOr(ItemGet(item.url), ItemGet(item.link)), PyStr(<<>>))]

\* the fields of one item as the HTTP path reads them (lines 139-141)
HttpFields(item) ==
    [title |-> PyOr(PyOr(ItemGet(item.title), ItemGet(item.headline)), PyStr(<<>>)),
     snippet |-> PyOr(PyOr(PyOr(ItemGet(item.snippet), ItemGet(item.summary)),
                           ItemGet(item.text)), PyStr(<<>>)),
     url |-> PyOr(PyOr(ItemGet(item.url), ItemGet(item.link)), PyStr(<<>>))]

\* the three .strip() calls of one append succeed
Strippable(f) == CanStrip(f.title) /\ CanStrip(f.snippet) /\ CanStrip(f.url)

\* {"title": title.strip(), "snippet": snippet.strip(), "url": url.strip()}
Stripped(f) ==
    [title |-> Strip(f.title.s), snippet |-> Strip(f.snippet.s), url |-> Strip(f.url.s)]

\* results[:max_results]
Truncate(results, max_results) ==
    SubSeq(results, 1, IF Len(results) < max_results THEN Len(results) ELSE max_results)

\* the index of the first item of raws whose append raises, 0 when none does
\* (`read` holds, item by item, the fields the loop body reads)
FirstBad(read) ==
    LET bad == {i \in 1 .. Len(read) : ~Strippable(read[i])}
    IN  IF bad = {} THEN 0 ELSE CHOOSE i \in bad : \A j \in bad : i <= j

\* the loop `for item in ...: items.append(...)` run on `raws` from the list
\* `start`: the list when the loop ends or raises
Appended(start, read) ==
    LET b == FirstBad(read)
        n == IF b = 0 THEN Len(read) ELSE b - 1
    IN  start \o [i \in 1 .. n |-> Stripped(read[i])]

\* the loop body's reads over the items shown, in each path
ClientRead(raws) == [i \in 1 .. Len(raws) |-> ClientFields(raws[i])]
HttpRead(raws) == [i \in 1 .. Len(raws) |-> HttpFields(raws[i])]

\* `items = []` of the HTTP path (line 137), whatever the client path left
StaleItems(left) == left
FreshItems(left) == <<>>

\* exceptions: the type, where it was raised, and the two things its text may
\* hold: a description and the URL of the request
Exc(type, origin, words, url) ==
    [type |-> type, origin |-> origin, words |-> words, url |-> url]
NoExc == Exc("None", "none", "None", "none")

DefaultUrl == "https://api.tavily.ai/v1/search"
Urls == {DefaultUrl, "https://tavily.example/search"}

\* what one requests.post of the HTTP path can end in
ConnErrors(url) ==
    {Exc("ConnectionError", "http", "Max retries exceeded with url", url),
     Exc("ConnectionError", "http", "Connection aborted", "none")}
HttpFailures(url) ==
    ConnErrors(url)
    \cup {Exc("HTTPError", "http", "500 Server Error for url", url),
          Exc("HTTPError", "http", "401 Client Error for url", url),
          Exc("JSONDecodeError", "http", "Expecting value", "none")}

\* `except ReqConnErr` catches connection errors only
RetriesAll(exc) == TRUE
IsConnErr(exc) == exc.type = "ConnectionError"

\* time.sleep(backoff) in the handler of a failed attempt
SleepAfterFailure(slept, b) == Append(slept, b)

\* RuntimeError(f"Tavily API connection failed after {attempts} attempts: {last_exc}")
ExhaustedError(n, last) ==
    [type |-> "RuntimeError", origin |-> "http",
     words |-> "Tavily API connection failed after", attempts |-> n, last |-> last]

MaxResults == 2
MaxAttempts == 3
MaxUpstream == 2
Backoffs == {1, 3}

RECURSIVE ListsOf(_, _)
ListsOf(S, n) ==
    IF n = 0 THEN {<<>>}
    ELSE LET shorter == ListsOf(S, n - 1)
         IN  shorter \cup {Append(l, x) : l \in shorter, x \in S}

UpstreamLists == ListsOf(RawItems, MaxUpstream)

\* how the client path ended, and the items it had appended by then
ClientLog(how, left) == [how |-> how, left |-> left]

NoResult == [k |-> "none", list |-> <<>>]
Returned(list) == [k |-> "list", list |-> list]

SearchInit ==
    /\ spc = "start"
    /\ skey \in BOOLEAN
    /\ smax \in 0 .. MaxResults
    /\ surl \in Urls
    /\ attempts \in 0 .. MaxAttempts
    /\ backoff0 \in Backoffs
    /\ attempt = 0
    /\ backoff = 0
    /\ sleeps = <<>>
    /\ requests = 0
    /\ httplog = <<>>
    /\ clientlog = ClientLog("untried", <<>>)
    /\ last_exc = NoExc
    /\ items = <<>>
    /\ sresult = NoResult
    /\ serror = NoExc

SearchIdle ==
    /\ spc = "idle" /\ skey = FALSE /\ smax = 0 /\ surl = DefaultUrl
    /\ attempts = 0 /\ backoff0 = 0 /\ attempt = 0 /\ backoff = 0
    /\ sleeps = <<>> /\ requests = 0 /\ httplog = <<>> /\ clientlog = ClientLog("untried", <<>>)
    /\ last_exc = NoExc /\ items = <<>> /\ sresult = NoResult /\ serror = NoExc

searchConfig == <<skey, smax, surl, attempts, backoff0>>

\* lines 43-45: no API key, EnvironmentError before anything is tried
TavilyNoKey ==
    /\ spc = "start" /\ ~skey
    /\ UNCHANGED exceptSearch
    /\ serror' = Exc("EnvironmentError", "config", "TAVILY_API_KEY is not set", "none")
    /\ spc' = "done"
    /\ UNCHANGED <<searchConfig, attempt, backoff, sleeps, requests, httplog,
                   clientlog, last_exc, items, sresult>>

\* the HTTP path's set-up after the client path raised (lines 92-131)
FallBackToHttp ==
    /\ spc' = "http"
    /\ attempt' = 1
    /\ backoff' = backoff0
    /\ last_exc' = NoExc
    /\ UNCHANGED <<searchConfig, sleeps, requests, httplog, sresult, serror>>

\* lines 59-93, the import failing or client.search raising
TavilyClientRaises ==
    /\ spc = "start" /\ skey
    /\ UNCHANGED exceptSearch
    /\ \E how \in {"import_error", "call_error"} : clientlog' = ClientLog(how, <<>>)
    /\ items' = items
    /\ FallBackToHttp

\* lines 59-93, client.search returning `raws` as its results: the list is
\* returned, or an item raises and the HTTP path takes over
TavilyClientAnswers ==
    /\ spc = "start" /\ skey
    /\ UNCHANGED exceptSearch
    /\ \E raws \in UpstreamLists :
         LET shown == Truncate(raws, smax)
         IN  /\ items' = Appended(<<>>, ClientRead(shown))
             /\ IF FirstBad(ClientRead(shown)) = 0
                THEN /\ clientlog' = ClientLog("ok", items')
                     /\ sresult' = Returned(items')
                     /\ spc' = "done"
                     /\ UNCHANGED <<searchConfig, attempt, backoff, sleeps, requests,
                                    httplog, last_exc, serror>>
                ELSE /\ clientlog' = ClientLog("malformed", items')
                     /\ FallBackToHttp

\* one pass of the retry loop whose request fails (lines 132-136, 144-165)
TavilyHttpFails ==
    /\ spc = "http" /\ attempt <= attempts
    /\ UNCHANGED exceptSearch
    /\ \E exc \in HttpFailures(surl) :
         /\ requests' = requests + 1
         /\ httplog' = Append(httplog, [exc |-> exc, body |-> <<>>])
         /\ IF IsConnErr(exc)
            THEN /\ last_exc' = exc
                 /\ sleeps' = SleepAfterFailure(sleeps, backoff)
                 /\ backoff' = backoff * 2
                 /\ attempt' = attempt + 1
                 /\ UNCHANGED <<spc, serror>>
            ELSE /\ serror' = exc
                 /\ spc' = "done"
                 /\ UNCHANGED <<last_exc, sleeps, backoff, attempt>>
    /\ UNCHANGED <<searchConfig, clientlog, items, sresult>>

\* one pass of the retry loop whose request is answered 2xx with `raws` as
\* its results (lines 132-143); an item that cannot be stripped raises
TavilyHttpAnswers ==
    /\ spc = "http" /\ attempt <= attempts
    /\ UNCHANGED exceptSearch
    /\ \E raws \in UpstreamLists :
         LET shown == Truncate(raws, smax)
         IN  /\ requests' = requests + 1
             /\ httplog' = Append(httplog, [exc |-> NoExc, body |-> raws])
             /\ items' = Appended(FreshItems(items), HttpRead(shown))
             /\ IF FirstBad(HttpRead(shown)) = 0
                THEN /\ sresult' = Returned(items')
                     /\ UNCHANGED serror
                ELSE /\ serror' = Exc("AttributeError", "http", "no attribute strip", "none")
                     /\ UNCHANGED sresult
    /\ spc' = "done"
    /\ UNCHANGED <<searchConfig, clientlog, attempt, backoff, sleeps, last_exc>>

\* line 168: the loop ran out of attempts
TavilyExhausted ==
    /\ spc = "http" /\ attempt > attempts
    /\ UNCHANGED exceptSearch
    /\ serror' = ExhaustedError(attempts, last_exc)
    /\ spc' = "done"
    /\ UNCHANGED <<searchConfig, attempt, backoff, sleeps, requests, httplog,
                   clientlog, last_exc, items, sresult>>

tavily_search ==
    \/ TavilyNoKey
    \/ TavilyClientRaises
    \/ TavilyClientAnswers
    \/ TavilyHttpFails
    \/ TavilyHttpAnswers
    \/ TavilyExhausted


(***************************************************************************)
(* web_search (web_search.py): DuckDuckGo's HTML page by default, Google   *)
(* Custom Search on request.  What the upstream answers is an input: the   *)
(* result blocks of the HTML page, the items of the JSON body, or a        *)
(* request failure.                                                        *)
(***************************************************************************)
Queries == {"python web scraping", "open access policy"}

\* the query of lines 105-108
FreshnessQuery ==
    "open science news (preprint OR policy OR open-access OR reproducibility) (today OR yesterday OR past 48 hours)"

\* one `.result` block of the page: whether it holds an anchor, the anchor's
\* text, and its `.result__snippet` text ("none": no such element)
DdgBlocks == [anchor : BOOLEAN, title : {"A", "B"}, snippet : {"none", "s"}]

\* one entry of the JSON body's "items"
CseItems == [title : {Absent, PyStr(<<"T">>)}, link : {Absent, PyStr(<<"l">>)},
             snippet : {Absent, PyStr(<<"s">>)}]

\* it.get(key, "")
GetOrEmpty(v) == IF v.k = "absent" THEN PyStr(<<>>) ELSE v

\* lines 44-51: the record of one block that holds an anchor
DdgRecord(b) ==
    [title |-> b.title, url |-> "href",
     snippet |-> IF b.snippet = "none" THEN "" ELSE b.snippet]

\* lines 42-53: the loop over the blocks; a block without an anchor is
\* skipped, and the length is compared with max_results after each append
RECURSIVE DdgCollect(_, _, _)
DdgCollect(blocks, max_results, results) ==
    IF blocks = <<>> THEN results
    ELSE IF ~Head(blocks).anchor
    THEN DdgCollect(Tail(blocks), max_results, results)
    ELSE LET appended == Append(results, DdgRecord(Head(blocks)))
         IN  IF Len(appended) >= max_results THEN appended
             ELSE DdgCollect(Tail(blocks), max_results, appended)

\* lines 31-57
duckduckgo_search_html(blocks, max_results) == DdgCollect(blocks, max_results, <<>>)

\* lines 71-79
google_cse_search(cse, max_results) ==
    LET shown == Truncate(cse, max_results)
    IN  [i \in 1 .. Len(shown) |->
            [title |-> GetOrEmpty(shown[i].title), url |-> GetOrEmpty(shown[i].link),
             snippet |-> GetOrEmpty(shown[i].snippet)]]

\* the query web_search hands to _duckduckgo_search_html (lines 105-109)
DdgQuery(query) == FreshnessQuery

NotSent == [backend |-> "none", q |-> ""]
Sent(backend, q) == [backend |-> backend, q |-> q]
WebRaised(err) == [k |-> err, list |-> <<>>, upstream |-> <<>>]
WebReturned(list, upstream) == [k |-> "list", list |-> list, upstream |-> upstream]

WebInit ==
    /\ wpc = "start"
    /\ wquery \in Queries
    /\ wmax \in 0 .. MaxResults
    /\ wgoogle \in BOOLEAN
    /\ wkeys \in BOOLEAN
    /\ wsent = NotSent
    /\ wresult = [k |-> "none", list |-> <<>>, upstream |-> <<>>]

WebIdle ==
    /\ wpc = "idle" /\ wquery = "" /\ wmax = 0 /\ wgoogle = FALSE /\ wkeys = FALSE
    /\ wsent = NotSent
    /\ wresult = [k |-> "none", list |-> <<>>, upstream |-> <<>>]

webConfig == <<wquery, wmax, wgoogle, wkeys>>

\* lines 96-98
WebGoogleNoKeys ==
    /\ wpc = "start" /\ wgoogle /\ ~wkeys
    /\ UNCHANGED exceptWeb
    /\ wresult' = WebRaised("ValueError")
    /\ wpc' = "done"
    /\ UNCHANGED <<webConfig, wsent>>

\* line 99 and _google_cse_search: the request is answered, or it fails and
\* the error leaves web_search
WebGoogle ==
    /\ wpc = "start" /\ wgoogle /\ wkeys
    /\ UNCHANGED exceptWeb
    /\ wsent' = Sent("google", wquery)
    /\ \/ \E cse \in ListsOf(CseItems, MaxUpstream) :
            wresult' = WebReturned(google_cse_search(cse, wmax), cse)
       \/ wresult' = WebRaised("RequestException")
    /\ wpc' = "done"
    /\ UNCHANGED webConfig

\* lines 101-111 and _duckduckgo_search_html: the page is parsed, or the
\* request fails and [] is returned
WebDuckDuckGo ==
    /\ wpc = "start" /\ ~wgoogle
    /\ UNCHANGED exceptWeb
    /\ wsent' = Sent("duckduckgo", DdgQuery(wquery))
    /\ \/ \E blocks \in ListsOf(DdgBlocks, MaxUpstream) :
            wresult' = WebReturned(duckduckgo_search_html(blocks, wmax),
                                   [i \in 1 .. Len(blocks) |-> blocks[i]])
       \/ wresult' = WebReturned(<<>>, <<>>)
    /\ wpc' = "done"
    /\ UNCHANGED webConfig

web_search ==
    \/ WebGoogleNoKeys
    \/ WebGoogle
    \/ WebDuckDuckGo


(***************************************************************************)
(* One raw search item read by each of the three paths that build a        *)
(* {title, snippet, url} record: the client path and the HTTP path of      *)
(* tavily_search, and load_input_file.                                     *)
(***************************************************************************)
\* the fields of one item as load_input_file reads them (lines 204-206)
LoaderFields(item) ==
    [title |-> PyOr(PyOr(ItemGet(item.title), ItemGet(item.headline)), PyStr(<<>>)),
     snippet |-> PyOr(PyOr(PyOr(PyOr(ItemGet(item.snippet), ItemGet(item.content)),
                                ItemGet(item.summary)), ItemGet(item.raw_content)),
                      PyStr(<<>>)),
     url |-> PyOr(PyOr(ItemGet(item.url), ItemGet(item.link)), PyStr(<<>>))]

\* the items an upstream or an input file may hold: each key missing or set
NormItems ==
    [title : {Absent, PyStr(<<>>), PyStr(<<"T", " ">>)}, headline : {Absent, PyStr(<<"H">>)},
     snippet : {Absent, PyNone, PyStr(<<"s">>)}, summary : {Absent, PyStr(<<"m">>)},
     text : {Absent, PyStr(<<"x">>)}, content : {Absent, PyStr(<<"c">>)},
     raw_content : {Absent, PyStr(<<"w">>)},
     url : {Absent, PyStr(<<"u">>)}, link : {Absent, PyStr(<<"l">>)}]

NormPaths == {"client", "http", "file"}
NoRecord == [title |-> <<"?">>, snippet |-> <<"?">>, url |-> <<"?">>]

NormalizeInit ==
    /\ npc = {}
    /\ nitem \in NormItems
    /\ nrec = [p \in NormPaths |-> NoRecord]

NormalizeIdle ==
    /\ npc = {"idle"}
    /\ nitem = [title |-> Absent, headline |-> Absent, snippet |-> Absent,
                summary |-> Absent, text |-> Absent, content |-> Absent,
                raw_content |-> Absent, url |-> Absent, link |-> Absent]
    /\ nrec = [p \in NormPaths |-> NoRecord]

\* tavily_search, client path, lines 80-89
NormalizeClient ==
    /\ "client" \notin npc /\ "idle" \notin npc
    /\ UNCHANGED exceptNormalize
    /\ nrec' = [nrec EXCEPT !["client"] = Stripped(ClientFields(nitem))]
    /\ npc' = npc \cup {"client"}
    /\ UNCHANGED nitem

\* tavily_search, HTTP path, lines 138-142
NormalizeHttp ==
    /\ "http" \notin npc /\ "idle" \notin npc
    /\ UNCHANGED exceptNormalize
    /\ nrec' = [nrec EXCEPT !["http"] = Stripped(HttpFields(nitem))]
    /\ npc' = npc \cup {"http"}
    /\ UNCHANGED nitem

\* load_input_file, lines 201-207
NormalizeFile ==
    /\ "file" \notin npc /\ "idle" \notin npc
    /\ UNCHANGED exceptNormalize
    /\ nrec' = [nrec EXCEPT !["file"] = Stripped(LoaderFields(nitem))]
    /\ npc' = npc \cup {"file"}
    /\ UNCHANGED nitem

NormalizeNext == NormalizeClient \/ NormalizeHttp \/ NormalizeFile


(***************************************************************************)
(* Text extraction applied to every shape of choice.                       *)
(***************************************************************************)
ExtractInit ==
    /\ xpc = {}
    /\ xchoice \in Choices
    /\ xv1 = PyNone
    /\ xsum = <<>>

ExtractIdle ==
    /\ xpc = {"idle"}
    /\ xchoice = [kind |-> "obj", message |-> [kind |-> "None", content |-> Absent],
                  text |-> Absent, repr |-> Absent]
    /\ xv1 = PyNone
    /\ xsum = <<>>

\* text = _extract_text_from_choice(choice)   (run_sys_prompt_agent.py)
ExtractV1 ==
    /\ "v1" \notin xpc /\ "idle" \notin xpc
    /\ UNCHANGED exceptExtract
    /\ xv1' = extract_text_from_choice(xchoice)
    /\ xpc' = xpc \cup {"v1"}
    /\ UNCHANGED <<xchoice, xsum>>

\* the extraction of call_openai_summary   (tavily_summary.py)
ExtractSummary ==
    /\ "summary" \notin xpc /\ "idle" \notin xpc
    /\ UNCHANGED exceptExtract
    /\ xsum' = summary_text(xchoice)
    /\ xpc' = xpc \cup {"summary"}
    /\ UNCHANGED <<xchoice, xv1>>

(***************************************************************************)
(* The completion calls.  What the API answers is an input: the v1 client  *)
(* raises, returns no choice, or returns a choice; the legacy              *)
(* ChatCompletion raises or returns a message content.                     *)
(***************************************************************************)
NoChoice == [kind |-> "obj", message |-> [kind |-> "None", content |-> Absent],
             text |-> Absent, repr |-> Absent]
V1Responses ==
    {[k |-> "raise", ch |-> NoChoice], [k |-> "empty", ch |-> NoChoice]}
    \cup {[k |-> "choice", ch |-> c] : c \in Choices}
LegacyResponses ==
    {Raised, PyNone, PyStr(<<>>), PyStr(<<" ", "\n">>), PyStr(<<"c", " ">>)}

Ok(text) == [ok |-> TRUE, text |-> text, err |-> "none"]
Fail(err) == [ok |-> FALSE, text |-> <<>>, err |-> err]

\* lines 167-187 and 293-306: response["choices"][0]["message"]["content"].strip()
\* is returned as it is; None has no strip
LegacyReturns(e, legacy) == e.hasChatCompletion /\ legacy.k = "str"

\* call_openai_system (run_sys_prompt_agent.py)
call_openai_system(e, v1, legacy) ==
    IF ~e.openaiKey THEN Fail("EnvironmentError")
    ELSE IF e.hasOpenAI /\ v1.k = "choice" /\ v1_text(v1.ch) # <<>>
    THEN Ok(v1_text(v1.ch))
    ELSE IF LegacyReturns(e, legacy) THEN Ok(Strip(legacy.s))
    ELSE Fail("RuntimeError")

\* call_openai_summary (tavily_summary.py)
call_openai_summary(e, v1, legacy) ==
    IF ~e.openaiKey THEN Fail("EnvironmentError")
    ELSE IF e.hasOpenAI /\ v1.k = "choice" THEN Ok(summary_text(v1.ch))
    ELSE IF LegacyReturns(e, legacy) THEN Ok(Strip(legacy.s))
    ELSE Fail("APIError")

(***************************************************************************)
(* One run of an entry point: the issue job (run_sys_prompt_agent.py       *)
(* --once), the Google-Doc main (run_sys_prompt_agent_gdoc.py) and the     *)
(* Tavily summary main (tavily_summary.py).  env holds what the            *)
(* environment provides; failure is the exception that leaves the entry    *)
(* point, "none" when it returns.                                          *)
(***************************************************************************)
Envs ==
    [openaiKey : BOOLEAN, hasOpenAI : BOOLEAN, hasChatCompletion : BOOLEAN,
     sink : BOOLEAN, tavilyKey : BOOLEAN, prompt : BOOLEAN]

RunInit ==
    /\ entry \in {"issue", "gdoc", "tavily"}
    /\ pc = "start"
    /\ env \in Envs
    /\ extracted = <<>>
    /\ digest = <<>>
    /\ published = <<>>
    /\ printed = <<>>
    /\ logged = {}
    /\ failure = "none"

RunIdle ==
    /\ entry = "none" /\ pc = "idle"
    /\ env = [openaiKey |-> FALSE, hasOpenAI |-> FALSE, hasChatCompletion |-> FALSE,
              sink |-> FALSE, tavilyKey |-> FALSE, prompt |-> FALSE]
    /\ extracted = <<>> /\ digest = <<>> /\ published = <<>> /\ printed = <<>>
    /\ logged = {} /\ failure = "none"

\* f"Open Science News Digest — {now.isoformat()}"
build_issue_title(now) == <<Heading, " ", EmDash, " ", isoformat(now)>>

\* an exception leaves the entry point
Crash(err) ==
    /\ failure' = err
    /\ pc' = "done"
    /\ UNCHANGED <<entry, env, extracted, digest, published, printed, logged>>

\* job_once, lines 253-260: the prompt is read and the completion called
job_once_completion ==
    /\ entry = "issue" /\ pc = "start"
    /\ UNCHANGED exceptRun
    /\ IF ~env.prompt THEN Crash("FileNotFoundError")
       ELSE \E v1 \in V1Responses, legacy \in LegacyResponses :
              LET got == call_openai_system(env, v1, legacy)
              IN  IF got.ok
                  THEN /\ extracted' = got.text
                       /\ digest' = got.text
                       /\ pc' = "publish"
                       /\ UNCHANGED <<entry, env, published, printed, logged, failure>>
                  ELSE /\ logged' = logged \cup {"OpenAI call failed"}
                       /\ pc' = "done"
                       /\ UNCHANGED <<entry, env, extracted, digest, published,
                                      printed, failure>>

\* job_once, lines 262-276: the title, then the sanitized digest posted as an
\* issue; GitHub answers 2xx or not.  Each date.today() reads the clock.
job_once_publish ==
    /\ entry = "issue" /\ pc = "publish"
    /\ UNCHANGED exceptRun
    /\ pc' = "done"
    /\ \E titleDay \in Days, bodyDay \in Days, accepted \in BOOLEAN :
         /\ titleDay <= bodyDay
         /\ IF env.sink
            THEN /\ digest' = sanitize_digest_for_issue(digest, bodyDay)
                 /\ IF accepted
                    THEN /\ published' = Append(published,
                                [sink |-> "issue", title |-> build_issue_title(titleDay),
                                 body |-> digest'])
                         /\ logged' = logged \cup {"Created GitHub issue"}
                    ELSE /\ logged' = logged \cup {"Failed to create GitHub issue"}
                         /\ UNCHANGED published
            ELSE /\ logged' = logged \cup {"skipping GitHub publishing"}
                 /\ UNCHANGED <<digest, published>>
    /\ UNCHANGED <<entry, env, extracted, printed, failure>>

\* run_sys_prompt_agent_gdoc.main, lines 74-76
gdoc_main_completion ==
    /\ entry = "gdoc" /\ pc = "start"
    /\ UNCHANGED exceptRun
    /\ IF ~env.prompt THEN Crash("FileNotFoundError")
       ELSE \E v1 \in V1Responses, legacy \in LegacyResponses, day \in Days :
              LET got == call_openai_system(env, v1, legacy)
              IN  IF got.ok
                  THEN /\ extracted' = got.text
                       /\ digest' = sanitize_digest_for_issue(got.text, day)
                       /\ pc' = "publish"
                       /\ UNCHANGED <<entry, env, published, printed, logged, failure>>
                  ELSE Crash(got.err)

\* run_sys_prompt_agent_gdoc.main, lines 78-86
gdoc_main_publish ==
    /\ entry = "gdoc" /\ pc = "publish"
    /\ UNCHANGED exceptRun
    /\ IF ~env.sink
       THEN /\ logged' = logged \cup {"skipping Google Doc append"}
            /\ printed' = Append(printed, digest)
            /\ pc' = "done"
            /\ UNCHANGED <<entry, env, extracted, digest, published, failure>>
       ELSE \E accepted \in BOOLEAN :
              IF accepted
              THEN /\ published' = Append(published,
                          [sink |-> "gdoc", title |-> <<>>, body |-> digest])
                   /\ logged' = logged \cup {"Appended content to Google Doc"}
                   /\ pc' = "done"
                   /\ UNCHANGED <<entry, env, extracted, digest, printed, failure>>
              ELSE Crash("HttpError")

\* tavily_summary.main, lines 326-351: results from the input file, or from
\* tavily_search, which returns a list or raises
tavily_main_search ==
    /\ entry = "tavily" /\ pc = "start"
    /\ UNCHANGED exceptRun
    /\ \E fromFile \in BOOLEAN, found \in BOOLEAN :
         IF fromFile \/ (env.tavilyKey /\ found)
         THEN /\ pc' = "complete"
              /\ UNCHANGED <<entry, env, extracted, digest, published, printed,
                             logged, failure>>
         ELSE Crash(IF env.tavilyKey THEN "RuntimeError" ELSE "EnvironmentError")

\* tavily_summary.main, line 353
tavily_main_completion ==
    /\ entry = "tavily" /\ pc = "complete"
    /\ UNCHANGED exceptRun
    /\ \E v1 \in V1Responses, legacy \in LegacyResponses :
         LET got == call_openai_summary(env, v1, legacy)
         IN  IF got.ok
             THEN /\ extracted' = got.text
                  /\ digest' = got.text
                  /\ pc' = "publish"
                  /\ UNCHANGED <<entry, env, published, printed, logged, failure>>
             ELSE Crash(got.err)

\* tavily_summary.main, lines 354-356, and write_summary_file
tavily_main_write ==
    /\ entry = "tavily" /\ pc = "publish"
    /\ UNCHANGED exceptRun
    /\ \E day \in Days :
         published' = Append(published,
             [sink |-> "file",
              title |-> <<"Subject: ">> \o build_issue_title(day), body |-> digest])
    /\ logged' = logged \cup {"Wrote summary"}
    /\ pc' = "done"
    /\ UNCHANGED <<entry, env, extracted, digest, printed, failure>>

(***************************************************************************)
(* The specifications.                                                     *)
(***************************************************************************)
Init == RunInit /\ ExtractIdle /\ SearchIdle /\ SanitizeIdle /\ WebIdle /\ NormalizeIdle

Next ==
    \/ job_once_completion
    \/ job_once_publish
    \/ gdoc_main_completion
    \/ gdoc_main_publish
    \/ tavily_main_search
    \/ tavily_main_completion
    \/ tavily_main_write

\* one run of one entry point
Spec == Init /\ [][Next]_vars

ExtractNext == ExtractV1 \/ ExtractSummary

\* the two extractions on every shape of choice
InitExtract ==
    ExtractInit /\ RunIdle /\ SearchIdle /\ SanitizeIdle /\ WebIdle /\ NormalizeIdle
SpecExtract == InitExtract /\ [][ExtractNext]_vars

\* one call of tavily_search
InitSearch ==
    SearchInit /\ RunIdle /\ ExtractIdle /\ SanitizeIdle /\ WebIdle /\ NormalizeIdle
SpecSearch == InitSearch /\ [][tavily_search]_vars

SanitizeNext == Sanitize \/ SanitizeAgain

\* the sanitizer applied once and twice to every text
InitSanitize ==
    SanitizeInit /\ RunIdle /\ ExtractIdle /\ SearchIdle /\ WebIdle /\ NormalizeIdle
SpecSanitize == InitSanitize /\ [][SanitizeNext]_vars

\* one call of web_search
InitWeb ==
    WebInit /\ RunIdle /\ ExtractIdle /\ SearchIdle /\ SanitizeIdle /\ NormalizeIdle
SpecWeb == InitWeb /\ [][web_search]_vars

\* one raw item through the three normalizing paths
InitNormalize ==
    NormalizeInit /\ RunIdle /\ ExtractIdle /\ SearchIdle /\ SanitizeIdle /\ WebIdle
SpecNormalize == InitNormalize /\ [][NormalizeNext]_vars


(***************************************************************************)
(* The claims.                                                             *)
(***************************************************************************)

\* C1: no sink (GitHub issue, Google Doc, summary file) ever receives a digest
\* whose text is empty or whitespace-only, whichever completion path (v1
\* client or legacy ChatCompletion) produced it.
C1_NoEmptyDigestPublished ==
    \A i \in DOMAIN published : Strip(published[i].body) # <<>>

\* The five strategies of the extraction chain, in order, each tried whether
\* or not the ones before it raised: mapping lookup, attribute lookup, the
\* message's get, the legacy text field, the stringified choice.
ChainStrategies(ch) ==
    LET m == ch.message
        reached == ~MessageIsNone(m) /\ (Subscriptable(ch.kind) \/ HasAttrs(ch.kind))
    IN  << ItemItemContent(ch),
           IF HasAttrs(ch.kind) /\ ~MessageIsNone(m)
           THEN GetAttrOrNone(m.kind, m.content) ELSE Raised,
           IF reached THEN DictGet(m.kind, m.content) ELSE Raised,
           LegacyText(ch),
           ch.repr >>

\* the text of the first strategy that yields non-empty text, stripped
ChainText(ch) ==
    LET st == ChainStrategies(ch)
        won == {i \in DOMAIN st : Truthy(st[i])}
    IN  IF won = {} THEN <<>>
        ELSE Strip(st[CHOOSE i \in won : \A j \in won : i <= j].s)

\* the shapes the chain is written for: the message is read the way the choice
\* is (a dict does not hold an attribute-only message)
NamedShape(ch) == ~(IsInstanceDict(ch.kind) /\ ch.message.kind = "obj")

\* C2: in both extract implementations the first strategy that yields
\* non-empty text wins and a strategy that raises or yields absent or empty
\* text never stops the chain, so every shape of choice yields the content it
\* carries; a choice whose message content is absent or empty and whose
\* legacy text field is non-empty yields the legacy text.
C2_ChainYieldsCarriedContent ==
    NamedShape(xchoice) =>
        /\ "v1" \in xpc => OrEmptyStrip(xv1) = ChainText(xchoice)
        /\ "summary" \in xpc => xsum = ChainText(xchoice)


\* the requests of the HTTP path that failed with something other than a
\* connection error
Rejections == {i \in DOMAIN httplog : httplog[i].exc.type \notin {"None", "ConnectionError"}}

\* C3: in the direct-HTTP path only connection-level failures are retried:
\* after a request that fails with any other error (an HTTP status, a body
\* that is no JSON) no further request is issued, no sleep is taken, and that
\* error is what the call raises, however many attempts remain.
C3_OnlyConnectionErrorsRetried ==
    \A i \in Rejections :
        /\ i = Len(httplog)
        /\ requests = i
        /\ Len(sleeps) = i - 1
        /\ spc = "done"
        /\ sresult = NoResult
        /\ serror = httplog[i].exc

\* a rejection on the second request, with attempts still left
C3_Witness ==
    /\ spc = "done" /\ Len(httplog) = 2 /\ attempts = 3
    /\ httplog[1].exc.type = "ConnectionError"
    /\ httplog[2].exc.type = "HTTPError"
    /\ serror.type = "HTTPError"

RECURSIVE Pow2(_)
Pow2(k) == IF k = 0 THEN 1 ELSE 2 * Pow2(k - 1)

\* C4: with attempt count n >= 1 and backoff base b, the sleep after the k-th
\* failed connection attempt (k < n) is b * 2^(k-1), and no sleep is taken
\* after the n-th: with n = 3 and b = 1 the sleeps are 1 then 2.
C4_NoSleepAfterFinalAttempt ==
    attempts >= 1 =>
        \A k \in DOMAIN sleeps : k < attempts /\ sleeps[k] = backoff0 * Pow2(k - 1)

\* what the text of the error raised on exhaustion names
NamesEndpoint(err) == err.last.url = surl
NamesAttempts(err) == err.attempts = attempts
NamesLastError(err) ==
    /\ httplog # <<>>
    /\ err.last = httplog[Len(httplog)].exc
    /\ err.last.type = "ConnectionError"

\* C5: the direct-HTTP path issues at most n requests for attempt count n;
\* when every attempt fails with a connection error it issues exactly n and
\* then fails with an error whose description names the endpoint, the attempt
\* count and the last underlying connection error.
C5_ExhaustionNamesEndpointCountAndError ==
    /\ requests <= attempts
    /\ (spc = "done" /\ serror.type = "RuntimeError" /\ attempts >= 1) =>
           /\ requests = attempts
           /\ NamesEndpoint(serror)
           /\ NamesAttempts(serror)
           /\ NamesLastError(serror)

ClientFailed == clientlog.how \in {"import_error", "call_error", "malformed"}

\* the record the HTTP path makes of one upstream item
ExpectedHttpRecord(item) ==
    LET pick(a, b) == IF Truthy(ItemGet(a)) THEN ItemGet(a).s
                      ELSE IF Truthy(ItemGet(b)) THEN ItemGet(b).s ELSE <<>>
        pick3(a, b, c) == IF Truthy(ItemGet(a)) THEN ItemGet(a).s ELSE pick(b, c)
    IN  [title |-> Strip(pick(item.title, item.headline)),
         snippet |-> Strip(pick3(item.snippet, item.summary, item.text)),
         url |-> Strip(pick(item.url, item.link))]

\* C6: the preferred client is tried before any HTTP request; on any
\* exception in the client path (import failure, call failure, malformed
\* response) the direct HTTP call is made; when it succeeds the returned list
\* is exactly the HTTP response's parsed results, holding nothing of the
\* failed client attempt, and no error is raised.
C6_FallbackReturnsHttpResults ==
    /\ requests > 0 => ClientFailed
    /\ (ClientFailed /\ spc = "done" /\ attempts >= 1) => requests >= 1
    /\ (spc = "done" /\ requests > 0 /\ sresult # NoResult) =>
           LET body == httplog[Len(httplog)].body
               n == IF Len(body) < smax THEN Len(body) ELSE smax
           IN  /\ serror = NoExc
               /\ Len(sresult.list) = n
               /\ \A i \in 1 .. n : sresult.list[i] = ExpectedHttpRecord(body[i])

\* the client path raised on its second item, having appended the first, and
\* the HTTP fallback then returned a list after a retry
C6_Witness ==
    /\ spc = "done" /\ clientlog.how = "malformed" /\ Len(clientlog.left) = 1
    /\ requests = 2 /\ sresult # NoResult /\ Len(sresult.list) = 2
    /\ sresult.list[1] # clientlog.left[1]


Sanitized == zpc \in {"once", "twice"}

\* C7: sanitize_digest_for_issue is idempotent: sanitize(sanitize(x, d), d)
\* equals sanitize(x, d) for every text x and date d, whatever line
\* separators x holds or ends with.
C7_SanitizeIdempotent == zpc = "twice" => zout2 = zout

\* str.splitlines(keepends=True), each line apart from its terminator
RECURSIVE LinesWithEnds(_)
LinesWithEnds(s) ==
    IF s = <<>> THEN <<>>
    ELSE LET p == NextBreak(s, 1)
         IN  IF p > Len(s) THEN <<[line |-> s, end |-> <<>>]>>
             ELSE LET q == IF s[p] = "\r" /\ p < Len(s) /\ s[p + 1] = "\n"
                           THEN p + 1 ELSE p
                  IN  <<[line |-> SubSeq(s, 1, p - 1), end |-> SubSeq(s, p, q)]>>
                      \o LinesWithEnds(SubSeq(s, q + 1, Len(s)))

RECURSIVE Glue(_)
Glue(parts) ==
    IF parts = <<>> THEN <<>> ELSE parts[1].line \o parts[1].end \o Glue(Tail(parts))

HasDatedHeading(s) == \E i \in 1 .. Len(s) : HeadingMatchEnd(s, i) > 0

\* the first Date line among the first six of `lines`, 0 when there is none
FirstDateLine(lines) ==
    LET hits == {i \in 1 .. Len(lines) : i <= 6 /\ IsDateLine(lines[i])}
    IN  IF hits = {} THEN 0 ELSE CHOOSE h \in hits : \A g \in hits : h <= g

\* what a Date line is rewritten to
CanonicalDateLine(line, iso) ==
    IF ParsesAsIso(Candidate(line)) THEN <<DateLit, " ", iso>>
    ELSE <<DateLit, " ", Unknown>>

\* s with its first Date line rewritten and every other character, line
\* terminators and trailing newline included, as it was
RewrittenInPlace(s, iso) ==
    LET parts == LinesWithEnds(s)
        f == FirstDateLine([i \in DOMAIN parts |-> parts[i].line])
    IN  Glue([i \in DOMAIN parts |->
                IF i = f THEN [parts[i] EXCEPT !.line = CanonicalDateLine(@, iso)]
                ELSE parts[i]])

\* C8: sanitize_digest_for_issue changes nothing but the dated headings and
\* the one rewritten Date line: a text with neither comes out character for
\* character (trailing newline, blank lines and line terminators included),
\* and in a text with a Date line every character outside that line is kept.
C8_NothingElseChanges ==
    (Sanitized /\ ~HasDatedHeading(zbody)) =>
        zout = RewrittenInPlace(zbody, isoformat(zdate))

\* the Date lines of `before` as they stand in the lines of the output: the
\* first one among the first six rewritten, every other one as it was
DateLinesKept(before, after, iso) ==
    \A j \in DOMAIN before :
        IsDateLine(before[j]) =>
            /\ j <= Len(after)
            /\ after[j] = IF j = FirstDateLine(before)
                          THEN CanonicalDateLine(before[j], iso) ELSE before[j]

C10_NoStaleHeadingRemains ==
    Sanitized =>
        \A i \in 1 .. Len(zout) :
            HeadingMatchEnd(zout, i) > 0 =>
                zout[HeadingMatchEnd(zout, i)] = isoformat(zdate)

\* two headings with another date, both rewritten
C10_Witness ==
    /\ zpc = "once"
    /\ Cardinality({i \in 1 .. Len(zbody) :
            HeadingMatchEnd(zbody, i) > 0
            /\ zbody[HeadingMatchEnd(zbody, i)] # isoformat(zdate)}) = 2
    /\ Cardinality({i \in 1 .. Len(zout) :
            HeadingMatchEnd(zout, i) > 0
            /\ zout[HeadingMatchEnd(zout, i)] = isoformat(zdate)}) = 2

\* the records of the first n usable entries of what the upstream answered:
\* the blocks that hold an anchor (DuckDuckGo), the items (Google)
FrontOf(backend, upstream, n) ==
    IF backend = "google"
    THEN google_cse_search(upstream, n)
    ELSE LET usable == SelectSeq(upstream, LAMBDA b : b.anchor)
         IN  [i \in 1 .. (IF Len(usable) < n THEN Len(usable) ELSE n) |->
                 DdgRecord(usable[i])]

\* C11: for every backend and every max_results >= 0, 0 included, the list
\* returned has at most max_results entries, taken in upstream order from the
\* front of the upstream results; an empty upstream result set yields an
\* empty list.
C11_AtMostMaxResults ==
    (wpc = "done" /\ wresult.k = "list") =>
        /\ Len(wresult.list) <= wmax
        /\ wresult.list = FrontOf(wsent.backend, wresult.upstream, wmax)
        /\ wresult.upstream = <<>> => wresult.list = <<>>

\* C12: with no sink configured, a run of the issue job or of the document
\* main that obtained a digest ends without error, publishes nothing, and
\* has surfaced the digest text by the time it ends.
C12_NoSinkStillSurfacesDigest ==
    [][(entry \in {"issue", "gdoc"} /\ pc = "publish" /\ ~env.sink) =>
           /\ pc' = "done"
           /\ failure' = "none"
           /\ published' = published
           /\ \E i \in DOMAIN printed' : printed'[i] = digest]_vars

\* C13: a missing credential is fatal only for its own integration: without
\* the completion key nothing is published, and with it no run is aborted by
\* a missing search key or a missing sink credential.
C13_MissingCredentialFatalForItsStepOnly ==
    pc = "done" =>
        /\ ~env.openaiKey => published = <<>>
        /\ env.openaiKey => failure # "EnvironmentError"

\* a run that did not produce its artifact: the completion failed, the
\* publish call was rejected, or an exception left the entry point
RunFailed ==
    \/ failure # "none"
    \/ logged \cap {"OpenAI call failed", "Failed to create GitHub issue"} # {}

\* C14: in one-shot mode every failed run publishes nothing and ends the
\* process with a nonzero exit status, that is, with an exception leaving main.
C14_FailedRunExitsNonzero ==
    (entry \in {"issue", "gdoc"} /\ pc = "done" /\ RunFailed) =>
        /\ published = <<>>
        /\ failure # "none"

\* C15: whatever a sink receives (issue, document, file) is the extracted
\* text after the date sanitizer, for the date of some day of the run.
C15_PublishedTextIsSanitized ==
    \A i \in DOMAIN published :
        \E day \in Days :
            published[i].body = sanitize_digest_for_issue(extracted, day)

\* C16: in every issue-job run the date of the published issue's title is
\* the date the sanitizer wrote into the body, even when midnight passes
\* between the steps of the run.
C16_TitleDateIsBodyDate ==
    \A i \in DOMAIN published :
        published[i].sink = "issue" =>
            \A k \in DOMAIN published[i].body :
                published[i].body[k] \in {isoformat(d) : d \in Days} =>
                    published[i].title[Len(published[i].title)] = published[i].body[k]

\* the first non-empty of the values, "" when there is none
RECURSIVE FirstNonEmpty(_)
FirstNonEmpty(values) ==
    IF values = <<>> THEN <<>>
    ELSE IF Truthy(Head(values)) THEN Strip(Head(values).s)
    ELSE FirstNonEmpty(Tail(values))

\* title: title then headline; snippet: snippet, summary, text; url: url
\* then link
CandidateRecord(item) ==
    [title |-> FirstNonEmpty(<<item.title, item.headline>>),
     snippet |-> FirstNonEmpty(<<item.snippet, item.summary, item.text>>),
     url |-> FirstNonEmpty(<<item.url, item.link>>)]

\* C17: every normalizing path (client, HTTP, input file) fills each field
\* from the first non-empty of the same candidate names, so one raw item
\* yields the same record whichever path read it.
C17_SameRecordOnEveryPath ==
    \A p \in npc \cap NormPaths : nrec[p] = CandidateRecord(nitem)

\* C18: on the DuckDuckGo path and on the Google path, the query web_search
\* submits upstream is the query its caller passed.
C18_CallerQuerySubmitted ==
    (wpc = "done" /\ wsent.backend # "none") => wsent.q = wquery

=============================================================================
